---------------------------- MODULE Spec2Model ----------------------------
(***************************************************************************)
(* CADScope: the browser viewer (docs/viewer.js) and the conversion        *)
(* pipeline (model_converter/convert.sh) as state machines.                *)
(*                                                                         *)
(* Text is kept as TLA+ strings; Len, \o, SubSeq and Tail work on them.    *)
(***************************************************************************)
EXTENDS Integers, Sequences, FiniteSets, TLC

(***************************************************************************)
(* Bounds of the model.                                                    *)
(***************************************************************************)
\* loadModel calls on one page, the call made at startup included
MaxLoads == 2

\* how many times cleanNodeName is applied in a row to one name
MaxNormalize == 2

\* JavaScript null
Null == "(null)"

(***************************************************************************)
(* String helpers (JavaScript String methods used by viewer.js).           *)
(***************************************************************************)
CharAt(s, i) == SubSeq(s, i, i)

\* Op applied to the value of v, which is computed once
With(v, Op(_)) == CHOOSE result \in { Op(x) : x \in {v} } : TRUE

Range(f) == { f[i] : i \in DOMAIN f }

LowerOf ==
  [ c \in {"A", "B", "C", "D", "E", "F", "G", "H", "I", "J", "K", "L", "M",
           "N", "O", "P", "Q", "R", "S", "T", "U", "V", "W", "X", "Y", "Z"} |->
      CASE c = "A" -> "a" [] c = "B" -> "b" [] c = "C" -> "c" [] c = "D" -> "d"
        [] c = "E" -> "e" [] c = "F" -> "f" [] c = "G" -> "g" [] c = "H" -> "h"
        [] c = "I" -> "i" [] c = "J" -> "j" [] c = "K" -> "k" [] c = "L" -> "l"
        [] c = "M" -> "m" [] c = "N" -> "n" [] c = "O" -> "o" [] c = "P" -> "p"
        [] c = "Q" -> "q" [] c = "R" -> "r" [] c = "S" -> "s" [] c = "T" -> "t"
        [] c = "U" -> "u" [] c = "V" -> "v" [] c = "W" -> "w" [] c = "X" -> "x"
        [] c = "Y" -> "y" [] c = "Z" -> "z" ]

\* one character, lower-cased (the /i flag of the regular expressions)
LowerChar(c) == IF c \in DOMAIN LowerOf THEN LowerOf[c] ELSE c

RECURSIVE ToLower(_)
ToLower(s) == IF Len(s) = 0 THEN "" ELSE LowerChar(CharAt(s, 1)) \o ToLower(Tail(s))

\* s.substring(from - 1): the text from position from to the end
From(s, from) == SubSeq(s, from, Len(s))

\* positions (1-based) at which pat occurs in s
Occurrences(s, pat) ==
  { i \in 1..(Len(s) - Len(pat) + 1) : SubSeq(s, i, i + Len(pat) - 1) = pat }

\* s.indexOf(pat) + 1, 0 when absent
IndexOf(s, pat) ==
  LET found == Occurrences(s, pat)
  IN  IF found = {} THEN 0 ELSE CHOOSE i \in found : \A j \in found : i <= j

\* s.lastIndexOf(pat) + 1, 0 when absent
LastIndexOf(s, pat) ==
  LET found == Occurrences(s, pat)
  IN  IF found = {} THEN 0 ELSE CHOOSE i \in found : \A j \in found : i >= j

IsSpace(c) == c \in {" ", "\t"}
IsDigit(c) == c \in {"0", "1", "2", "3", "4", "5", "6", "7", "8", "9"}

\* s.startsWith(prefix)
StartsWith(s, prefix) ==
  /\ Len(s) >= Len(prefix)
  /\ SubSeq(s, 1, Len(prefix)) = prefix

\* s.endsWith(suffix)
EndsWith(s, suffix) ==
  /\ Len(s) >= Len(suffix)
  /\ SubSeq(s, Len(s) - Len(suffix) + 1, Len(s)) = suffix

\* first position >= i of s that holds no white space (Len(s) + 1 if none)
RECURSIVE SkipSpaces(_, _)
SkipSpaces(s, i) ==
  IF i <= Len(s) /\ IsSpace(CharAt(s, i)) THEN SkipSpaces(s, i + 1) ELSE i

\* first position of the run of white space that ends just before position i
RECURSIVE SpacesBefore(_, _)
SpacesBefore(s, i) ==
  IF i > 1 /\ IsSpace(CharAt(s, i - 1)) THEN SpacesBefore(s, i - 1) ELSE i

\* s.trim()
Trim(s) ==
  LET RECURSIVE LastNonSpace(_)
      LastNonSpace(j) ==
        IF j >= 1 /\ IsSpace(CharAt(s, j)) THEN LastNonSpace(j - 1) ELSE j
  IN  SubSeq(s, SkipSpaces(s, 1), LastNonSpace(Len(s)))

\* s.replace(/pat/i, ''): the first occurrence of pat, in any letter case
RemoveFirstCI(s, pat) ==
  LET i == IndexOf(ToLower(s), pat)
  IN  IF i = 0 THEN s ELSE SubSeq(s, 1, i - 1) \o From(s, i + Len(pat))

\* s.replace(/\s*pat\s*/i, ''): the first occurrence of pat, in any letter
\* case, together with the white space around it
RemoveFirstPaddedCI(s, pat) ==
  LET i == IndexOf(ToLower(s), pat)
  IN  IF i = 0 THEN s
      ELSE SubSeq(s, 1, SpacesBefore(s, i) - 1) \o From(s, SkipSpaces(s, i + Len(pat)))

\* s.replace(/\.glb$/, with)
ReplaceGlbSuffix(s, with) ==
  IF EndsWith(s, ".glb") THEN SubSeq(s, 1, Len(s) - 4) \o with ELSE s

(***************************************************************************)
(* Pure functions of viewer.js.                                            *)
(***************************************************************************)
modelStem(path) == ReplaceGlbSuffix(From(path, LastIndexOf(path, "/") + 1), "")

cleanNodeName(name) ==
  IF name = "" THEN ""
  ELSE LET afterSlash == IF IndexOf(name, "/") # 0
                         THEN From(name, LastIndexOf(name, "/") + 1) ELSE name
           noStep     == RemoveFirstCI(afterSlash, ".step")
           noMesh     == RemoveFirstPaddedCI(noStep, "(mesh)")
           noGroup    == RemoveFirstPaddedCI(noMesh, "(group)")
       IN  Trim(noGroup)

\* stripNumericSuffix that strips nothing
stripNumericSuffix_KeepSuffix(name) == name

stripNumericSuffix(name) ==
  LET RECURSIVE DigitsStart(_)
      \* first position of the run of digits that ends the name
      DigitsStart(j) ==
        IF j >= 1 /\ IsDigit(CharAt(name, j)) THEN DigitsStart(j - 1) ELSE j + 1
      d == DigitsStart(Len(name))
  IN  IF d <= Len(name) /\ d > 1 /\ CharAt(name, d - 1) = "-"
      THEN SubSeq(name, 1, d - 2) ELSE name

(***************************************************************************)
(* The page's query string (URLSearchParams).                              *)
(***************************************************************************)
\* s.split(sep)
RECURSIVE Split(_, _)
Split(s, sep) ==
  LET i == IndexOf(s, sep)
  IN  IF i = 0 THEN <<s>>
      ELSE <<SubSeq(s, 1, i - 1)>> \o Split(From(s, i + Len(sep)), sep)

\* new URLSearchParams(search).get(key): the value of the first pair named
\* key, Null when there is none
ParamGet(search, key) ==
  LET query  == IF Len(search) > 0 /\ CharAt(search, 1) = "?" THEN Tail(search) ELSE search
      pairs  == Split(query, "&")
      named  == { i \in DOMAIN pairs : StartsWith(pairs[i], key \o "=") }
      first  == CHOOSE i \in named : \A j \in named : i <= j
  IN  IF named = {} THEN Null ELSE From(pairs[first], Len(key) + 2)

\* JavaScript truthiness of a string-or-null
Truthy(v) == v # Null /\ v # ""

(***************************************************************************)
(* Inputs: the options of the model selector, the glTF documents and the   *)
(* color-group documents the server holds, the locations the page is       *)
(* opened with and the colors the user picks.                              *)
(***************************************************************************)
ModelOptions == <<"models/A.glb", "models/B.glb">>

\* nodes in traversal (pre-order) order; parent 0 is the scene root
GltfNodes(path) ==
  IF path = "models/A.glb"
  THEN << [name |-> "Scene",                      parent |-> 0, isMesh |-> FALSE, material |-> 0],
          [name |-> "Assembly/Base.step (group)", parent |-> 1, isMesh |-> FALSE, material |-> 0],
          [name |-> "Assembly/Plate.step (mesh)", parent |-> 2, isMesh |-> TRUE,  material |-> 1],
          [name |-> "Lid-2",                      parent |-> 1, isMesh |-> TRUE,  material |-> 1],
          [name |-> "Knob",                       parent |-> 1, isMesh |-> TRUE,  material |-> 2],
          [name |-> "Screw",                      parent |-> 1, isMesh |-> TRUE,  material |-> 1] >>
  ELSE << [name |-> "Scene",       parent |-> 0, isMesh |-> FALSE, material |-> 0],
          [name |-> "Assembly",    parent |-> 1, isMesh |-> FALSE, material |-> 0],
          [name |-> "Base (mesh)", parent |-> 2, isMesh |-> TRUE,  material |-> 1],
          [name |-> "Lid",         parent |-> 2, isMesh |-> TRUE,  material |-> 1],
          [name |-> "Assembly/Bracket.step (mesh)",
                                   parent |-> 2, isMesh |-> TRUE,  material |-> 1],
          [name |-> "Assembly/Bracket-2.step (mesh)",
                                   parent |-> 2, isMesh |-> TRUE,  material |-> 1] >>

\* colors of the materials of the glTF document, by material index
GltfMaterials(path) ==
  IF path = "models/A.glb" THEN <<"cccccc", "333333">> ELSE <<"999999">>

\* the color-group document authored for a model
ColorSetAt(colorPath) ==
  IF colorPath = "models/A.colors.json"
  THEN [main_color |-> "#ff0000", accent_color |-> "#00ff00",
        main_parts |-> <<"Base", "Knob">>, accent_parts |-> <<"Knob", "Lid">>]
  ELSE [main_color |-> "#aa0000", accent_color |-> "#00aa00",
        main_parts |-> <<"Base", "Bracket">>, accent_parts |-> <<"Lid">>]

\* how a fetch of a color-group document can settle: the promise rejects, the
\* response is not ok, or it is ok and its body is not JSON, is JSON for an
\* empty value (null, false, 0, ""), is an object whose main_parts is not
\* iterable, or is the authored document
FetchOutcomes == {"rejected", "notok", "unparsable", "falsy", "badparts", "doc"}

InitialURLs == {"", "?model=B&main=112233&accent=445566"}

PickColors == {"#0000ff"}

\* progress events of the geometry loader
ProgressEvents == { [loaded |-> 1, total |-> 2], [loaded |-> 1, total |-> 0] }

VARIABLES
  selectValue,        \* document.getElementById('modelSelect').value
  search,             \* window.location.search
  urlMainColor,       \* let urlMainColor
  urlAccentColor,     \* let urlAccentColor
  currentModel,       \* let currentModel: index into loads, 0 for null
  sceneModels,        \* the loaded models that are children of scene
  mainMeshes,         \* let mainMeshes: sequence of <<load, node>>
  accentMeshes,       \* let accentMeshes
  controlsDisplay,    \* colorControls.style.display
  mainPickerValue,    \* mainColorPicker.value
  accentPickerValue,  \* accentColorPicker.value
  loadingOverlay,     \* whether #loadingOverlay is in the document
  loadingText,        \* #loadingText.textContent
  treeModel,          \* the load whose hierarchy #tree shows, 0 for none
  treeChecks,         \* per item of #tree: checkbox checked, item of class hidden
  loads,              \* one record per loadModel call of this page
  written,            \* updateURL has run on this page
  snapshot            \* the page as it was when it was reloaded

pageVars == <<selectValue, search, urlMainColor, urlAccentColor, currentModel,
              sceneModels, mainMeshes, accentMeshes, controlsDisplay,
              mainPickerValue, accentPickerValue, loadingOverlay, loadingText,
              treeModel, treeChecks, loads>>

viewerVars == <<pageVars, written, snapshot>>

VARIABLES
  argv,               \* the arguments convert.sh is run with
  env,                \* what the script finds: the tools and the shell
  sh,                 \* the shell variables of convert.sh
  pc,                 \* the place convert.sh has come to
  tmpFiles,           \* the temporary files that exist
  stdout,             \* the lines the script has written
  stages,             \* the stages run so far, with arguments and exit status
  exitStatus          \* the exit status of convert.sh, -1 while it runs

shellVars == <<argv, env, sh, pc, tmpFiles, stdout, stages, exitStatus>>

\* a node name put through the two name functions of viewer.js
VARIABLES
  nodeName,           \* obj.name
  normalized,         \* the results of cleanNodeName applied again and again
  instance            \* stripNumericSuffix of the cleaned name, Null before

nameVars == <<nodeName, normalized, instance>>

vars == <<viewerVars, shellVars, nameVars>>


(***************************************************************************)
(* Colors and materials.  A loaded model keeps, per node, the index of its *)
(* material and, per material, its color as six hex digits.  A clone made  *)
(* for node n takes the index NoMaterials + n: the material it replaces on *)
(* that mesh is referenced by nothing else once it is a clone itself.      *)
(***************************************************************************)
\* new THREE.Color('#rrggbb')
ThreeColor(hex) == Tail(hex)

\* the most materials a glTF document of the models holds
NoMaterials == Len(GltfMaterials(ModelOptions[1]))

\* the record of a loadModel call whose geometry is in flight
PendingLoad(path) ==
  [path |-> path, gltf |-> "pending", fetch |-> "none", material |-> <<>>, color |-> <<>>,
   visible |-> <<>>]

\* gltf.scene of a successful geometry load
LoadedScene(ld) ==
  [ld EXCEPT !.gltf = "loaded",
             !.material = [n \in DOMAIN GltfNodes(ld.path) |-> GltfNodes(ld.path)[n].material],
             !.color = GltfMaterials(ld.path),
             !.visible = [n \in DOMAIN GltfNodes(ld.path) |-> TRUE]]

\* applyColorSet without line 126: the mesh keeps the material it shares
CloneMaterial_Shared(ld, n) == ld

\* obj.material = obj.material.clone()
CloneMaterial(ld, n) ==
  LET old == ld.material[n]
      new == NoMaterials + n
  IN  [ld EXCEPT !.material[n] = new,
                 !.color = (new :> ld.color[old]) @@ ld.color]

\* mesh.material.color.copy(color) for one mesh
CopyColor(ld, n, color) ==
  [ld EXCEPT !.color[ld.material[n]] = color]

\* meshes.forEach((mesh) => { mesh.material.color.copy(color); })
RECURSIVE CopyColorToAll(_, _, _)
CopyColorToAll(lds, meshes, color) ==
  IF meshes = <<>> THEN lds
  ELSE With([lds EXCEPT ![Head(meshes)[1]] = CopyColor(@, Head(meshes)[2], color)],
            LAMBDA copied : CopyColorToAll(copied, Tail(meshes), color))

\* the material color a mesh shows
MeshColor(lds, m) == lds[m[1]].color[lds[m[1]].material[m[2]]]

(***************************************************************************)
(* applyColorSet (viewer.js 103-132).                                      *)
(***************************************************************************)
\* cleanNodeName and stripNumericSuffix of the node names of the models,
\* computed once
NodeNames ==
  UNION { { GltfNodes(ModelOptions[i])[n].name : n \in DOMAIN GltfNodes(ModelOptions[i]) } :
          i \in DOMAIN ModelOptions }

LookupKeys ==
  [name \in NodeNames |->
     [cleaned  |-> cleanNodeName(name),
      stripped |-> stripNumericSuffix(cleanNodeName(name))]]

\* GroupOf with the accent list looked up first
GroupOf_AccentFirst(colorSet, nodes, n) ==
  LET mainSet       == Range(colorSet.main_parts)
      accentSet     == Range(colorSet.accent_parts)
      cleaned       == LookupKeys[nodes[n].name].cleaned
      stripped      == LookupKeys[nodes[n].name].stripped
      parentCleaned == IF nodes[n].parent # 0
                       THEN LookupKeys[nodes[nodes[n].parent].name].cleaned ELSE ""
  IN  IF ~nodes[n].isMesh THEN Null
      ELSE IF cleaned \in accentSet \/ stripped \in accentSet \/ parentCleaned \in accentSet
           THEN "accent"
      ELSE IF cleaned \in mainSet \/ stripped \in mainSet \/ parentCleaned \in mainSet
           THEN "main"
      ELSE Null

\* GroupOf without the lookup of the parent's name
GroupOf_NoParentKey(colorSet, nodes, n) ==
  LET mainSet   == Range(colorSet.main_parts)
      accentSet == Range(colorSet.accent_parts)
      cleaned   == LookupKeys[nodes[n].name].cleaned
      stripped  == LookupKeys[nodes[n].name].stripped
  IN  IF ~nodes[n].isMesh THEN Null
      ELSE IF cleaned \in mainSet \/ stripped \in mainSet THEN "main"
      ELSE IF cleaned \in accentSet \/ stripped \in accentSet THEN "accent"
      ELSE Null

\* the group chosen for one node by the callback of model.traverse
GroupOf(colorSet, nodes, n) ==
  LET mainSet       == Range(colorSet.main_parts)
      accentSet     == Range(colorSet.accent_parts)
      cleaned       == LookupKeys[nodes[n].name].cleaned
      stripped      == LookupKeys[nodes[n].name].stripped
      parentCleaned == IF nodes[n].parent # 0
                       THEN LookupKeys[nodes[nodes[n].parent].name].cleaned ELSE ""
  IN  IF ~nodes[n].isMesh THEN Null
      ELSE IF cleaned \in mainSet \/ stripped \in mainSet \/ parentCleaned \in mainSet
           THEN "main"
      ELSE IF cleaned \in accentSet \/ stripped \in accentSet \/ parentCleaned \in accentSet
           THEN "accent"
      ELSE Null

\* the callback of model.traverse for node n; r holds mainMeshes,
\* accentMeshes and the model (of load s) as they are before the visit
Visit(colorSet, s, n, r) ==
  LET group == GroupOf(colorSet, GltfNodes(r.model.path), n)
      color == ThreeColor(IF group = "main" THEN colorSet.main_color
                                            ELSE colorSet.accent_color)
  IN  IF group = Null THEN r
      ELSE [main   |-> IF group = "main" THEN Append(r.main, <<s, n>>) ELSE r.main,
            accent |-> IF group = "accent" THEN Append(r.accent, <<s, n>>) ELSE r.accent,
            model  |-> CopyColor(CloneMaterial(r.model, n), n, color)]

\* model.traverse from node n on
RECURSIVE Traverse(_, _, _, _)
Traverse(colorSet, s, n, r) ==
  IF n > Len(r.model.material) THEN r
  ELSE With(Visit(colorSet, s, n, r),
            LAMBDA visited : Traverse(colorSet, s, n + 1, visited))

\* applyColorSet(colorSet, model) for the model of load s: the new
\* mainMeshes, accentMeshes and model
applyColorSet(colorSet, s, ld) ==
  Traverse(colorSet, s, 1, [main |-> <<>>, accent |-> <<>>, model |-> ld])

\* modelStem of the options of the selector, computed once
OptionStems == [i \in DOMAIN ModelOptions |-> modelStem(ModelOptions[i])]

(***************************************************************************)
(* updateURL (viewer.js 63-72): the query string it writes, from the       *)
(* values the page has when it is called.                                  *)
(***************************************************************************)
updateURL(select, display, mainPicker, accentPicker) ==
  "?model=" \o OptionStems[CHOOSE i \in DOMAIN ModelOptions : ModelOptions[i] = select]
    \o (IF display # "none"
        THEN "&main=" \o Tail(mainPicker) \o "&accent=" \o Tail(accentPicker)
        ELSE "")

(***************************************************************************)
(* Startup (viewer.js 74-86 and 235): the selection and the overrides read *)
(* from the location the page is opened with.                              *)
(***************************************************************************)
\* lines 75-84: the option selected when the script has read the location
StartSelect(location) ==
  LET urlModel == ParamGet(location, "model")
      matching == { i \in DOMAIN ModelOptions : OptionStems[i] = urlModel }
  IN  IF Truthy(urlModel) /\ matching # {}
      THEN ModelOptions[CHOOSE i \in matching : \A j \in matching : i <= j]
      ELSE ModelOptions[1]

\* lines 85-86
StartColor(location, key) ==
  LET value == ParamGet(location, key)
  IN  IF Truthy(value) THEN "#" \o value ELSE Null

TextLoading == "Loading model..."
TextFailed == "Failed to load model."
\* `Loading model... ${pct}%`
TextProgress(progress) ==
  "Loading model... "
    \o ToString((progress.loaded * 200 + progress.total) \div (2 * progress.total))
    \o "%"

(***************************************************************************)
(* buildTree (viewer.js 237-307): the items put in #tree for a scene, in   *)
(* document order.                                                         *)
(***************************************************************************)
\* obj.children, in order
ChildrenOf(nodes, n) ==
  SelectSeq([i \in DOMAIN nodes |-> i], LAMBDA i : nodes[i].parent = n)

\* lines 242-244: the glTF "Scene" wrapper with a single child is skipped
TreeRoot(nodes) ==
  IF Len(ChildrenOf(nodes, 1)) = 1 /\ nodes[1].name = "Scene"
  THEN ChildrenOf(nodes, 1)[1] ELSE 1

\* lines 246-304: one item for obj, then the items of its children inside it
RECURSIVE createTreeItem(_, _, _)
RECURSIVE createTreeItems(_, _, _)
createTreeItem(nodes, n, depth) ==
  << [node     |-> n,
      label    |-> IF nodes[n].name # "" THEN nodes[n].name
                   ELSE IF nodes[n].isMesh THEN "Mesh" ELSE "Group",
      depth    |-> depth,
      toggle   |-> ChildrenOf(nodes, n) # <<>>,
      expanded |-> ChildrenOf(nodes, n) # <<>> /\ depth = 0] >>
    \o createTreeItems(nodes, ChildrenOf(nodes, n), depth + 1)

\* lines 296-298: obj.children.forEach
createTreeItems(nodes, children, depth) ==
  IF children = <<>> THEN <<>>
  ELSE createTreeItem(nodes, Head(children), depth)
         \o createTreeItems(nodes, Tail(children), depth)

buildTree(nodes) == createTreeItem(nodes, TreeRoot(nodes), 0)

\* the items of the tree of each model, computed once
TreeOfModel == [path \in Range(ModelOptions) |-> buildTree(GltfNodes(path))]

\* the items #tree holds: those built for the model of load treeModel
TreeShown(lds, tree) == IF tree = 0 THEN <<>> ELSE TreeOfModel[lds[tree].path]

\* lines 262-265: each checkbox is created with checked = obj.visible, and no
\* item is created with the class hidden
TreeChecks(lds, s) ==
  [i \in DOMAIN TreeShown(lds, s) |->
     [checked |-> lds[s].visible[TreeShown(lds, s)[i].node], hidden |-> FALSE]]

NoSnapshot == [taken |-> FALSE]

\* the page when the script has run: the selection and the overrides are read
\* from the location and loadModel was called for the selected option
PageStart(location) ==
  /\ search = location
  /\ selectValue = StartSelect(location)
  /\ urlMainColor = StartColor(location, "main")
  /\ urlAccentColor = StartColor(location, "accent")
  /\ currentModel = 0
  /\ sceneModels = {}
  /\ mainMeshes = <<>>
  /\ accentMeshes = <<>>
  /\ controlsDisplay = "none"
  /\ mainPickerValue = "#000000"
  /\ accentPickerValue = "#000000"
  /\ loadingOverlay = TRUE
  /\ loadingText = TextLoading
  /\ treeModel = 0
  /\ treeChecks = <<>>
  /\ loads = <<PendingLoad(StartSelect(location))>>
  /\ written = FALSE
  /\ snapshot = NoSnapshot

(***************************************************************************)
(* loadModel (viewer.js 187-230): the synchronous part.  The three         *)
(* callbacks handed to gltfLoader.load are the actions GltfLoaded,         *)
(* GltfProgress and GltfError.                                             *)
(***************************************************************************)
loadModel(path) ==
  /\ sceneModels' = IF currentModel # 0 THEN sceneModels \ {currentModel} ELSE sceneModels
  /\ controlsDisplay' = "none"
  /\ loadingOverlay' = TRUE
  /\ loadingText' = TextLoading
  /\ loads' = Append(loads, PendingLoad(path))
  /\ UNCHANGED <<search, urlMainColor, urlAccentColor, currentModel, mainMeshes,
                 accentMeshes, mainPickerValue, accentPickerValue, treeModel, treeChecks>>

\* the user picks an option of #modelSelect; its change handler calls loadModel
SelectModel(path) ==
  /\ Len(loads) < MaxLoads
  /\ selectValue' = path
  /\ loadModel(path)
  /\ snapshot' = NoSnapshot
  /\ UNCHANGED written
  /\ UNCHANGED <<shellVars, nameVars>>

\* colorPath of loadColorSet
ColorPath(path) == ReplaceGlbSuffix(path, ".colors.json")

\* the success callback of gltfLoader.load for load s (viewer.js 206-221);
\* loadColorSet starts the fetch of the color-group document
GltfLoaded(s) ==
  /\ loads[s].gltf = "pending"
  /\ currentModel' = s
  /\ sceneModels' = sceneModels \cup {s}
  /\ loads' = [loads EXCEPT ![s] = [LoadedScene(@) EXCEPT !.fetch = "pending"]]
  /\ treeModel' = s
  /\ treeChecks' = TreeChecks(loads', s)
  \* line 220: without the overlay, .remove() is called on null and throws
  /\ loadingOverlay' = FALSE
  /\ loadingText' = Null
  /\ UNCHANGED <<selectValue, search, urlMainColor, urlAccentColor, mainMeshes,
                 accentMeshes, controlsDisplay, mainPickerValue, accentPickerValue,
                 written, snapshot>>
  /\ UNCHANGED <<shellVars, nameVars>>

\* the progress callback (viewer.js 221-226)
GltfProgress(s, progress) ==
  /\ loads[s].gltf = "pending"
  \* without the overlay, #loadingText is null and the assignment throws
  /\ loadingText' = IF progress.total # 0 /\ loadingOverlay
                    THEN TextProgress(progress) ELSE loadingText
  /\ UNCHANGED <<selectValue, search, urlMainColor, urlAccentColor, currentModel,
                 sceneModels, mainMeshes, accentMeshes, controlsDisplay,
                 mainPickerValue, accentPickerValue, loadingOverlay, treeModel, treeChecks,
                 loads, written, snapshot>>
  /\ UNCHANGED <<shellVars, nameVars>>

\* the error callback (viewer.js 226-229)
GltfError(s) ==
  /\ loads[s].gltf = "pending"
  /\ loads' = [loads EXCEPT ![s].gltf = "error"]
  \* without the overlay, #loadingText is null and the assignment throws
  /\ loadingText' = IF loadingOverlay THEN TextFailed ELSE loadingText
  /\ UNCHANGED <<selectValue, search, urlMainColor, urlAccentColor, currentModel,
                 sceneModels, mainMeshes, accentMeshes, controlsDisplay,
                 mainPickerValue, accentPickerValue, loadingOverlay, treeModel, treeChecks,
                 written, snapshot>>
  /\ UNCHANGED <<shellVars, nameVars>>

(***************************************************************************)
(* loadColorSet (viewer.js 134-173): what the promise chain of the fetch   *)
(* started for load s does when the fetch settles with the given outcome.  *)
(* The result names the values the page has when the chain has run;        *)
(* writes tells whether updateURL was called.                              *)
(***************************************************************************)
PageNow ==
  [display |-> controlsDisplay, mainPicker |-> mainPickerValue,
   accentPicker |-> accentPickerValue, main |-> mainMeshes, accent |-> accentMeshes,
   loads |-> loads, urlMain |-> urlMainColor, urlAccent |-> urlAccentColor,
   writes |-> FALSE]

\* lines 141-145: the response is not ok; lines 169-172: the catch handler
HideControls(page) == [page EXCEPT !.display = "none", !.writes = TRUE]

\* lines 154-164: the colors of the location, where there are any, are put
\* in the pickers and on the meshes of the groups
OverrideColors(page) ==
  [page EXCEPT
     !.mainPicker   = IF page.urlMain # Null THEN page.urlMain ELSE @,
     !.accentPicker = IF page.urlAccent # Null THEN page.urlAccent ELSE @,
     !.loads        =
        With(IF page.urlMain # Null
             THEN CopyColorToAll(@, page.main, ThreeColor(page.urlMain)) ELSE @,
             LAMBDA lds : IF page.urlAccent # Null
                          THEN CopyColorToAll(lds, page.accent, ThreeColor(page.urlAccent))
                          ELSE lds)]

\* lines 149-152: the pickers take the document's colors and the document is
\* applied to the model of load s
ShowDocument(page, s, colorSet, applied) ==
  [page EXCEPT !.display = "", !.mainPicker = colorSet.main_color,
               !.accentPicker = colorSet.accent_color,
               !.main = applied.main, !.accent = applied.accent,
               !.loads[s] = applied.model]

\* lines 149-168
ApplyDocument(page, s, colorSet) ==
  With(applyColorSet(colorSet, s, page.loads[s]),
       LAMBDA applied :
         With(ShowDocument(page, s, colorSet, applied),
              LAMBDA shown :
                [OverrideColors(shown) EXCEPT !.urlMain = Null, !.urlAccent = Null,
                                              !.writes = TRUE]))

\* lines 149-151 and 104-107 for an object whose main_parts is not iterable:
\* new Set throws after the pickers were set and the collections emptied
ApplyBadParts(page, colorSet) ==
  HideControls([page EXCEPT !.mainPicker = colorSet.main_color,
                            !.accentPicker = colorSet.accent_color,
                            !.main = <<>>, !.accent = <<>>])

loadColorSet(page, s, outcome) ==
  LET colorSet == ColorSetAt(ColorPath(page.loads[s].path))
  IN  CASE outcome \in {"rejected", "notok", "unparsable"} -> HideControls(page)
        [] outcome = "falsy"    -> page
        [] outcome = "badparts" -> ApplyBadParts(page, colorSet)
        [] outcome = "doc"      -> ApplyDocument(page, s, colorSet)

\* what the record of a load keeps of a settled fetch: the document was
\* applied, an empty document was skipped, or the controls were hidden
FetchResult(outcome) ==
  CASE outcome = "doc"   -> "applied"
    [] outcome = "falsy" -> "skipped"
    [] OTHER             -> "hidden"

\* the fetch of the color-group document of load s settles
ColorSetSettled(s, outcome) ==
  /\ loads[s].fetch = "pending"
  /\ \E after \in {loadColorSet(PageNow, s, outcome)} :
         /\ controlsDisplay' = after.display
         /\ mainPickerValue' = after.mainPicker
         /\ accentPickerValue' = after.accentPicker
         /\ mainMeshes' = after.main
         /\ accentMeshes' = after.accent
         /\ loads' = [after.loads EXCEPT ![s].fetch = FetchResult(outcome)]
         /\ urlMainColor' = after.urlMain
         /\ urlAccentColor' = after.urlAccent
         /\ search' = IF after.writes
                      THEN updateURL(selectValue, after.display, after.mainPicker,
                                     after.accentPicker)
                      ELSE search
         /\ written' = (written \/ after.writes)
  /\ UNCHANGED <<selectValue, currentModel, sceneModels, loadingOverlay, loadingText,
                 treeModel, treeChecks, snapshot>>
  /\ UNCHANGED <<shellVars, nameVars>>

(***************************************************************************)
(* The input listeners of the two pickers (viewer.js 175-185).  The        *)
(* pickers are inside #colorControls, so the user reaches them only while  *)
(* the controls are displayed.                                             *)
(***************************************************************************)
MainPickerInput(value) ==
  /\ controlsDisplay # "none"
  /\ mainPickerValue' = value
  /\ loads' = CopyColorToAll(loads, mainMeshes, ThreeColor(value))
  /\ search' = updateURL(selectValue, controlsDisplay, value, accentPickerValue)
  /\ written' = TRUE
  /\ snapshot' = NoSnapshot
  /\ UNCHANGED <<selectValue, urlMainColor, urlAccentColor, currentModel, sceneModels,
                 mainMeshes, accentMeshes, controlsDisplay, accentPickerValue,
                 loadingOverlay, loadingText, treeModel, treeChecks>>
  /\ UNCHANGED <<shellVars, nameVars>>

AccentPickerInput(value) ==
  /\ controlsDisplay # "none"
  /\ accentPickerValue' = value
  /\ loads' = CopyColorToAll(loads, accentMeshes, ThreeColor(value))
  /\ search' = updateURL(selectValue, controlsDisplay, mainPickerValue, value)
  /\ written' = TRUE
  /\ snapshot' = NoSnapshot
  /\ UNCHANGED <<selectValue, urlMainColor, urlAccentColor, currentModel, sceneModels,
                 mainMeshes, accentMeshes, controlsDisplay, mainPickerValue,
                 loadingOverlay, loadingText, treeModel, treeChecks>>
  /\ UNCHANGED <<shellVars, nameVars>>

(***************************************************************************)
(* The page is opened again at its current location: the script runs from  *)
(* the top (viewer.js 54-56, 74-86, 235) and the callbacks of the old page *)
(* are gone.                                                               *)
(***************************************************************************)
\* no geometry load and no fetch is in flight
Quiescent ==
  \A s \in DOMAIN loads : loads[s].gltf # "pending" /\ loads[s].fetch # "pending"

\* node and color of each mesh of a collection
Shown(lds, meshes) == [i \in DOMAIN meshes |-> <<meshes[i][2], MeshColor(lds, meshes[i])>>]

Reload ==
  /\ snapshot' = IF Quiescent /\ written
                 THEN [taken |-> TRUE, select |-> selectValue,
                       display |-> controlsDisplay,
                       mainPicker |-> mainPickerValue,
                       accentPicker |-> accentPickerValue,
                       main |-> Shown(loads, mainMeshes),
                       accent |-> Shown(loads, accentMeshes)]
                 ELSE NoSnapshot
  /\ written' = FALSE
  /\ selectValue' = StartSelect(search)
  /\ urlMainColor' = StartColor(search, "main")
  /\ urlAccentColor' = StartColor(search, "accent")
  /\ currentModel' = 0
  /\ sceneModels' = {}
  /\ mainMeshes' = <<>>
  /\ accentMeshes' = <<>>
  /\ controlsDisplay' = "none"
  /\ mainPickerValue' = "#000000"
  /\ accentPickerValue' = "#000000"
  /\ loadingOverlay' = TRUE
  /\ loadingText' = TextLoading
  /\ treeModel' = 0
  /\ treeChecks' = <<>>
  /\ loads' = <<PendingLoad(StartSelect(search))>>
  /\ UNCHANGED search
  /\ UNCHANGED <<shellVars, nameVars>>

(***************************************************************************)
(* The change listener of a visibility checkbox of the tree (viewer.js     *)
(* 266-273).  A click on the checkbox flips it and fires the event.        *)
(***************************************************************************)
\* the items of the tree whose checkbox the user clicks
ToggledItems == {1, 3}

\* the listener that also sets the visible flag of the children of obj
CheckboxChange_Subtree(item) ==
  /\ treeModel # 0
  /\ item \in DOMAIN treeChecks
  /\ LET obj     == TreeShown(loads, treeModel)[item].node
         checked == ~treeChecks[item].checked
         nodes   == GltfNodes(loads[treeModel].path)
     IN  /\ loads' = [loads EXCEPT ![treeModel].visible =
                        [n \in DOMAIN @ |->
                           IF n = obj \/ nodes[n].parent = obj THEN checked ELSE @[n]]]
         /\ treeChecks' = [treeChecks EXCEPT ![item] =
                             [checked |-> checked, hidden |-> ~checked]]
  /\ UNCHANGED <<selectValue, search, urlMainColor, urlAccentColor, currentModel,
                 sceneModels, mainMeshes, accentMeshes, controlsDisplay,
                 mainPickerValue, accentPickerValue, loadingOverlay, loadingText,
                 treeModel, written, snapshot>>
  /\ UNCHANGED <<shellVars, nameVars>>

CheckboxChange(item) ==
  /\ treeModel # 0
  /\ item \in DOMAIN treeChecks
  /\ LET obj     == TreeShown(loads, treeModel)[item].node
         checked == ~treeChecks[item].checked
     IN  /\ loads' = [loads EXCEPT ![treeModel].visible[obj] = checked]
         /\ treeChecks' = [treeChecks EXCEPT ![item] =
                             [checked |-> checked, hidden |-> ~checked]]
  /\ UNCHANGED <<selectValue, search, urlMainColor, urlAccentColor, currentModel,
                 sceneModels, mainMeshes, accentMeshes, controlsDisplay,
                 mainPickerValue, accentPickerValue, loadingOverlay, loadingText,
                 treeModel, written, snapshot>>
  /\ UNCHANGED <<shellVars, nameVars>>

(***************************************************************************)
(* convert.sh (model_converter/convert.sh 13-88).                          *)
(***************************************************************************)
\* the files the script is asked to convert
InputPaths ==
  {"part.step", "ASM.STP", "scene.usdz", "Scene.USDZ", "a.usdc", "b.usd", "mesh.obj", "noext"}

\* the argument lists the script is run with
ArgLists ==
  UNION { { <<input, "out.glb">>, <<"--no-draco", input, "out.glb">>, <<input>> } :
          input \in InputPaths }

\* the exit statuses of a stage
StageStatuses == {0, 1}

TMPGLB == "/tmp/convert_step_XXXXXX.glb"
TMPJSON == "/tmp/convert_step_XXXXXX.json"

UsageLine == "Usage: convert.sh [--no-draco] <input.step|input.usdz> <output.glb>"
ExtractionWarning == "Warning: color extraction failed, continuing without colors"
SupportedLine == "Supported: .step, .stp, .usdz, .usdc, .usd"
UnboundLine == "COLORS_ARGS[@]: unbound variable"

\* lines 20-27: the arguments other than --no-draco, in order
RECURSIVE Positional(_)
Positional(args) ==
  IF args = <<>> THEN <<>>
  ELSE IF Head(args) = "--no-draco" THEN Positional(Tail(args))
  ELSE <<Head(args)>> \o Positional(Tail(args))

\* "${INPUT##*.}": the text after the last dot, the whole text without a dot
AfterLastDot(path) == From(path, LastIndexOf(path, ".") + 1)

\* the script and the shell before the first command runs
ShellStart(args, found) ==
  /\ argv = args
  /\ env = found
  /\ sh = [NO_DRACO |-> "", POSITIONAL |-> <<>>, INPUT |-> "", OUTPUT |-> "",
           EXT_LOWER |-> "", COLORS_ARGS |-> <<>>, trap |-> FALSE]
  /\ pc = "start"
  /\ tmpFiles = {}
  /\ stdout = <<>>
  /\ stages = <<>>
  /\ exitStatus = -1

\* Exit without the EXIT trap of line 54
Exit_NoTrap(status, trap) ==
  /\ pc' = "exited"
  /\ exitStatus' = status
  /\ tmpFiles' = tmpFiles

\* the script exits: the EXIT trap, once set, removes the temporary files
Exit(status, trap) ==
  /\ pc' = "exited"
  /\ exitStatus' = status
  /\ tmpFiles' = IF trap THEN tmpFiles \ {TMPGLB, TMPJSON} ELSE tmpFiles

\* lines 19-37
ParseArguments ==
  /\ pc = "start"
  /\ LET positional == Positional(argv)
         noDraco    == IF "--no-draco" \in Range(argv) THEN "--no-draco" ELSE ""
     IN  IF Len(positional) < 2
         THEN /\ sh' = [sh EXCEPT !.NO_DRACO = noDraco, !.POSITIONAL = positional]
              /\ stdout' = Append(stdout, UsageLine)
              /\ Exit(1, sh.trap)
         ELSE /\ sh' = [sh EXCEPT !.NO_DRACO = noDraco, !.POSITIONAL = positional,
                                  !.INPUT = positional[1], !.OUTPUT = positional[2],
                                  !.EXT_LOWER = ToLower(AfterLastDot(positional[1]))]
              /\ pc' = "case"
              /\ UNCHANGED <<tmpFiles, stdout, exitStatus>>
  /\ UNCHANGED <<argv, env, stages, viewerVars, nameVars>>

\* lines 83-87: no pattern of the case matches
RejectFormat ==
  /\ pc = "case"
  /\ sh.EXT_LOWER \notin {"step", "stp", "usdz", "usdc", "usd"}
  /\ stdout' = stdout \o <<"Error: unsupported format '." \o sh.EXT_LOWER \o "'",
                            SupportedLine>>
  /\ Exit(1, sh.trap)
  /\ UNCHANGED <<argv, env, sh, stages, viewerVars, nameVars>>

\* PrepareStep as the first pattern of a case that tests no extension
PrepareStep_AnyFormat ==
  /\ pc = "case"
  /\ IF ~env.freecad
     THEN /\ stdout' = Append(stdout, "Error: FreeCAD not found")
          /\ Exit(1, sh.trap)
          /\ UNCHANGED sh
     ELSE IF ~env.blender
     THEN /\ stdout' = Append(stdout, "Error: Blender not found")
          /\ Exit(1, sh.trap)
          /\ UNCHANGED sh
     ELSE /\ tmpFiles' = tmpFiles \cup {TMPGLB, TMPJSON}
          /\ sh' = [sh EXCEPT !.trap = TRUE]
          /\ pc' = "extract"
          /\ UNCHANGED <<stdout, exitStatus>>
  /\ UNCHANGED <<argv, env, stages, viewerVars, nameVars>>

\* lines 40-54: the tools are looked for, the temporary files are made and the
\* trap is set
PrepareStep ==
  /\ pc = "case"
  /\ sh.EXT_LOWER \in {"step", "stp"}
  /\ IF ~env.freecad
     THEN /\ stdout' = Append(stdout, "Error: FreeCAD not found")
          /\ Exit(1, sh.trap)
          /\ UNCHANGED sh
     ELSE IF ~env.blender
     THEN /\ stdout' = Append(stdout, "Error: Blender not found")
          /\ Exit(1, sh.trap)
          /\ UNCHANGED sh
     ELSE /\ tmpFiles' = tmpFiles \cup {TMPGLB, TMPJSON}
          /\ sh' = [sh EXCEPT !.trap = TRUE]
          /\ pc' = "extract"
          /\ UNCHANGED <<stdout, exitStatus>>
  /\ UNCHANGED <<argv, env, stages, viewerVars, nameVars>>

\* lines 56-62: stage 1; its exit status is tested by if, so it ends nothing
ExtractColors(status) ==
  /\ pc = "extract"
  /\ stages' = Append(stages, [tool |-> "extract_step_colors.py",
                               args |-> <<sh.INPUT, TMPJSON>>, status |-> status])
  /\ IF status = 0
     THEN /\ sh' = [sh EXCEPT !.COLORS_ARGS = <<"--colors", TMPJSON>>]
          /\ stdout' = Append(stdout, "=== Stage 1/3: Extract colors ===")
     ELSE /\ stdout' = stdout \o <<"=== Stage 1/3: Extract colors ===", ExtractionWarning>>
          /\ UNCHANGED sh
  /\ pc' = "freecad"
  /\ UNCHANGED <<argv, env, tmpFiles, exitStatus, viewerVars, nameVars>>

\* stage 2 without set -e: the script goes on after a nonzero status
FreeCadStage_NoErrexit(status) ==
  /\ pc = "freecad"
  /\ stages' = Append(stages, [tool |-> "freecadcmd",
                               args |-> <<sh.INPUT, TMPGLB>>, status |-> status])
  /\ stdout' = Append(stdout, "=== Stage 2/3: STEP -> GLB (FreeCAD) ===")
  /\ pc' = "blender"
  /\ UNCHANGED <<tmpFiles, exitStatus>>
  /\ UNCHANGED <<argv, env, sh, viewerVars, nameVars>>

\* lines 64-66: stage 2; under set -e a nonzero status ends the script
FreeCadStage(status) ==
  /\ pc = "freecad"
  /\ stages' = Append(stages, [tool |-> "freecadcmd",
                               args |-> <<sh.INPUT, TMPGLB>>, status |-> status])
  /\ stdout' = Append(stdout, "=== Stage 2/3: STEP -> GLB (FreeCAD) ===")
  /\ IF status # 0
     THEN Exit(status, sh.trap)
     ELSE pc' = "blender" /\ UNCHANGED <<tmpFiles, exitStatus>>
  /\ UNCHANGED <<argv, env, sh, viewerVars, nameVars>>

\* the words of the Blender command line after "--": $NO_DRACO is not quoted,
\* so an empty value gives no word
BlenderArgs(noDraco, colorsArgs, input, output) ==
  (IF noDraco = "" THEN <<>> ELSE <<noDraco>>) \o colorsArgs \o <<input, output>>

\* lines 68-70: stage 3.  Under set -u (line 13), a bash older than 4.4 takes
\* "${COLORS_ARGS[@]}" of the empty array of line 56 for an unbound variable:
\* the command is not run and the script exits with status 1.
BlenderStage(status) ==
  /\ pc = "blender"
  /\ IF sh.COLORS_ARGS = <<>> /\ env.emptyArrayUnbound
     THEN /\ stdout' = stdout \o <<"=== Stage 3/3: GLB -> Draco GLB (Blender) ===",
                                   UnboundLine>>
          /\ UNCHANGED stages
          /\ Exit(1, sh.trap)
     ELSE /\ stdout' = Append(stdout, "=== Stage 3/3: GLB -> Draco GLB (Blender) ===")
          /\ stages' = Append(stages,
               [tool |-> "Blender",
                args |-> BlenderArgs(sh.NO_DRACO, sh.COLORS_ARGS, TMPGLB, sh.OUTPUT),
                status |-> status])
          /\ Exit(status, sh.trap)
  /\ UNCHANGED <<argv, env, sh, viewerVars, nameVars>>

\* lines 73-81: a USD file goes through Blender alone
ConvertUsd(status) ==
  /\ pc = "case"
  /\ sh.EXT_LOWER \in {"usdz", "usdc", "usd"}
  /\ IF ~env.blender
     THEN /\ stdout' = Append(stdout, "Error: Blender not found")
          /\ UNCHANGED stages
          /\ Exit(1, sh.trap)
     ELSE /\ stages' = Append(stages,
               [tool |-> "Blender",
                args |-> BlenderArgs(sh.NO_DRACO, <<>>, sh.INPUT, sh.OUTPUT),
                status |-> status])
          /\ UNCHANGED stdout
          /\ Exit(status, sh.trap)
  /\ UNCHANGED <<argv, env, sh, viewerVars, nameVars>>

\* what the script can find on the machine: the two tools, and a shell that
\* takes the expansion of an empty array for an unbound variable or not
Environments ==
  [freecad : BOOLEAN, blender : BOOLEAN, emptyArrayUnbound : BOOLEAN]

(***************************************************************************)
(* The name functions of viewer.js (88-101) applied to node names the way  *)
(* the traverse callback applies them (lines 115-116).                     *)
(***************************************************************************)
\* node names as the converter stages leave them: a path prefix, the part
\* name with an instance suffix, the .step of the file and the tag of the
\* exporter, some of them more than once
NamePrefixes == {"", "Assembly/"}
NameStems == {"Bracket", "Bracket-2", "Bracket-(mesh)-3", " Plate"}
NameSuffixes == {"", ".step", ".STEP.step"}
NameTags == {"", " (mesh)", " (group)", " (mesh) (mesh)"}

NodeNameInputs ==
  { prefix \o stem \o suffix \o tag :
      prefix \in NamePrefixes, stem \in NameStems, suffix \in NameSuffixes,
      tag \in NameTags }

NamesStart(name) ==
  /\ nodeName = name
  /\ normalized = <<>>
  /\ instance = Null

\* line 115, and cleanNodeName called on its own result
Normalize ==
  /\ Len(normalized) < MaxNormalize
  /\ normalized' = Append(normalized,
                          cleanNodeName(IF normalized = <<>> THEN nodeName
                                        ELSE normalized[Len(normalized)]))
  /\ UNCHANGED <<nodeName, instance, viewerVars, shellVars>>

\* line 116: const stripped = stripNumericSuffix(cleaned)
StripInstance ==
  /\ normalized # <<>>
  /\ instance = Null
  /\ instance' = stripNumericSuffix(normalized[1])
  /\ UNCHANGED <<nodeName, normalized, viewerVars, shellVars>>

(***************************************************************************)
(* The specifications: the viewer page, one run of convert.sh, and the     *)
(* name functions on one node name.                                        *)
(***************************************************************************)
Init ==
  /\ \E location \in InitialURLs : PageStart(location)
  /\ ShellStart(<<>>, [freecad |-> TRUE, blender |-> TRUE, emptyArrayUnbound |-> FALSE])
  /\ NamesStart("")

Next ==
  \/ \E i \in DOMAIN ModelOptions : SelectModel(ModelOptions[i])
  \/ \E s \in DOMAIN loads : GltfLoaded(s)
  \/ \E s \in DOMAIN loads : \E progress \in ProgressEvents : GltfProgress(s, progress)
  \/ \E s \in DOMAIN loads : GltfError(s)
  \/ \E s \in DOMAIN loads : \E outcome \in FetchOutcomes : ColorSetSettled(s, outcome)
  \/ \E value \in PickColors : MainPickerInput(value)
  \/ \E value \in PickColors : AccentPickerInput(value)
  \/ Reload

Spec == Init /\ [][Next]_vars

InitConvert ==
  /\ PageStart("")
  /\ \E args \in ArgLists : \E found \in Environments : ShellStart(args, found)
  /\ NamesStart("")

NextConvert ==
  \/ ParseArguments
  \/ RejectFormat
  \/ PrepareStep
  \/ \E status \in StageStatuses : ExtractColors(status)
  \/ \E status \in StageStatuses : FreeCadStage(status)
  \/ \E status \in StageStatuses : BlenderStage(status)
  \/ \E status \in StageStatuses : ConvertUsd(status)

SpecConvert == InitConvert /\ [][NextConvert]_vars

InitNames ==
  /\ PageStart("")
  /\ ShellStart(<<>>, [freecad |-> TRUE, blender |-> TRUE, emptyArrayUnbound |-> FALSE])
  /\ \E name \in NodeNameInputs : NamesStart(name)

NextNames ==
  \/ Normalize
  \/ StripInstance

SpecNames == InitNames /\ [][NextNames]_vars

\* the viewer page with the checkboxes of the tree: the page is opened at the
\* location without parameters and is not reloaded; a fetch of a color-group
\* document ends with the document or with a response that is not ok
TreeFetchOutcomes == {"doc", "notok"}

InitTree ==
  /\ PageStart("")
  /\ ShellStart(<<>>, [freecad |-> TRUE, blender |-> TRUE, emptyArrayUnbound |-> FALSE])
  /\ NamesStart("")

NextTree ==
  \/ \E i \in DOMAIN ModelOptions : SelectModel(ModelOptions[i])
  \/ \E s \in DOMAIN loads : GltfLoaded(s)
  \/ \E s \in DOMAIN loads : GltfError(s)
  \/ \E s \in DOMAIN loads : \E outcome \in TreeFetchOutcomes : ColorSetSettled(s, outcome)
  \/ \E value \in PickColors : MainPickerInput(value)
  \/ \E value \in PickColors : AccentPickerInput(value)
  \/ \E item \in ToggledItems : CheckboxChange(item)

SpecTree == InitTree /\ [][NextTree]_vars



(***************************************************************************)
(* Properties of the viewer.                                               *)
(***************************************************************************)
\* the color-group document authored for the model of load s
ColorSetOf(s) == ColorSetAt(ColorPath(loads[s].path))

\* a newer loadModel call has been made since load s
Stale(s) == s < Len(loads)

\* materials and colors of every loaded model
MeshState == [s \in DOMAIN loads |-> <<loads[s].material, loads[s].color>>]
MeshStateNext == [s \in DOMAIN loads' |-> <<loads'[s].material, loads'[s].color>>]

\* C1: when the color-group fetch started for a load settles, in whatever
\* way, after a newer loadModel call has been made, the completion changes no
\* mesh color, neither mainMeshes nor accentMeshes, no picker value and not
\* the visibility of the color controls.
C1_StaleFetchChangesNothing ==
  [][\A s \in DOMAIN loads : \A outcome \in FetchOutcomes :
       (Stale(s) /\ ColorSetSettled(s, outcome))
         => /\ MeshStateNext = MeshState
            /\ UNCHANGED <<mainMeshes, accentMeshes, mainPickerValue,
                           accentPickerValue, controlsDisplay>>]_vars

\* the outcomes of a fetch that give no document to apply
FailedOutcomes == {"rejected", "notok", "unparsable", "falsy", "badparts"}

\* the scene, the tree and the overlay with its message are as they were, and
\* no load was started
NoErrorState ==
  /\ UNCHANGED <<currentModel, sceneModels, loadingOverlay, loadingText, treeModel>>
  /\ Len(loads') = Len(loads)

\* C2: when the color-group fetch of a load that has not been replaced
\* settles with a non-success response, a rejection or a document that cannot
\* be parsed or applied, the color controls are hidden, no mesh of the loaded
\* model is recolored and no error state is entered.
C2_FailedFetchHidesControls ==
  [][\A s \in DOMAIN loads : \A outcome \in FailedOutcomes :
       (~Stale(s) /\ ColorSetSettled(s, outcome))
         => /\ controlsDisplay' = "none"
            /\ MeshStateNext = MeshState
            /\ NoErrorState]_vars

\* the cleaned and the instance-stripped name of every node name
CleanedNames == [name \in NodeNames |-> cleanNodeName(name)]
StrippedNames == [name \in NodeNames |-> stripNumericSuffix(cleanNodeName(name))]

\* the three lookup keys of a node, computed from its name
KeysOf(nodes, n) ==
  { CleanedNames[nodes[n].name],
    StrippedNames[nodes[n].name],
    IF nodes[n].parent # 0 THEN CleanedNames[nodes[nodes[n].parent].name] ELSE "" }

\* the node is a mesh and one of its keys is in the list of parts
Matches(parts, nodes, n) == nodes[n].isMesh /\ KeysOf(nodes, n) \cap Range(parts) # {}

\* the model of load s is displayed and its document was applied to it
Displayed(s) == s = currentModel /\ loads[s].fetch = "applied"

\* the step starts no geometry load
NoLoadStarted ==
  /\ Len(loads') = Len(loads)
  /\ \A t \in DOMAIN loads : loads'[t].gltf = "pending" => loads[t].gltf = "pending"

\* every mesh of the displayed model that belongs to the group has the color
\* after the step
GroupRecolored(group, value) ==
  \A s \in DOMAIN loads :
    Displayed(s) =>
      \A n \in DOMAIN GltfNodes(loads[s].path) :
        GroupOf(ColorSetOf(s), GltfNodes(loads[s].path), n) = group
          => MeshColor(loads', <<s, n>>) = ThreeColor(value)

\* C3: in every state in which the color controls are visible, an input event
\* on the main (accent) picker sets the color of every mesh of the displayed
\* model that was resolved into the main (accent) group to the picked color,
\* and starts no geometry load.
C3_PickerRecolorsDisplayedGroup ==
  [][\A value \in PickColors :
       /\ MainPickerInput(value) => GroupRecolored("main", value) /\ NoLoadStarted
       /\ AccentPickerInput(value) => GroupRecolored("accent", value) /\ NoLoadStarted]_vars

\* the document with the entries of both lists in the opposite order
RECURSIVE Reverse(_)
Reverse(seq) == IF seq = <<>> THEN <<>> ELSE Append(Reverse(Tail(seq)), Head(seq))
Reordered(colorSet) ==
  [colorSet EXCEPT !.main_parts = Reverse(@), !.accent_parts = Reverse(@)]

\* C4: no mesh is in both mainMeshes and accentMeshes; a mesh of the model the
\* collections were filled from whose keys match both main_parts and
\* accent_parts is in mainMeshes only, and the group of a node is the same
\* whatever the order of the entries of the two lists.
C4_MainWins ==
  /\ Range(mainMeshes) \cap Range(accentMeshes) = {}
  /\ \A s \in DOMAIN loads :
       (\E m \in Range(mainMeshes) \cup Range(accentMeshes) : m[1] = s)
         => \A n \in DOMAIN GltfNodes(loads[s].path) :
              LET nodes == GltfNodes(loads[s].path)
              IN  /\ (Matches(ColorSetOf(s).main_parts, nodes, n)
                        /\ Matches(ColorSetOf(s).accent_parts, nodes, n))
                       => /\ <<s, n>> \in Range(mainMeshes)
                          /\ <<s, n>> \notin Range(accentMeshes)
                  /\ GroupOf(Reordered(ColorSetOf(s)), nodes, n)
                       = GroupOf(ColorSetOf(s), nodes, n)

\* C4 witness: the document of model A was applied; Knob (node 5), named in
\* both lists, is in mainMeshes and Lid-2 (node 4) is in accentMeshes.
C4_Witness ==
  \E s \in DOMAIN loads :
    /\ loads[s].path = "models/A.glb"
    /\ <<s, 5>> \in Range(mainMeshes)
    /\ <<s, 4>> \in Range(accentMeshes)

\* C5: when a color-group document is applied to a model, a mesh of the model
\* is put in the main group and given main_color exactly when its cleaned
\* name, its instance-stripped cleaned name or its parent's cleaned name is in
\* main_parts, and in the accent group with accent_color exactly when it is
\* not in the main group and one of the three keys is in accent_parts; a node
\* that is no mesh is in no group.  (The colors are those applyColorSet
\* leaves; on the first load the location's colors are copied over them.)
C5_GroupsByLookupKeys ==
  [][\A s \in DOMAIN loads :
       ColorSetSettled(s, "doc") =>
         LET colorSet == ColorSetOf(s)
             nodes    == GltfNodes(loads[s].path)
             applied  == applyColorSet(colorSet, s, loads[s])
         IN  /\ mainMeshes' = applied.main
             /\ accentMeshes' = applied.accent
             /\ (urlMainColor = Null /\ urlAccentColor = Null)
                  => loads'[s].color = applied.model.color
             /\ loads'[s].material = applied.model.material
             /\ \A n \in DOMAIN nodes :
                  LET inMain   == Matches(colorSet.main_parts, nodes, n)
                      inAccent == ~inMain /\ Matches(colorSet.accent_parts, nodes, n)
                      color    == applied.model.color[applied.model.material[n]]
                  IN  /\ <<s, n>> \in Range(mainMeshes') <=> inMain
                      /\ <<s, n>> \in Range(accentMeshes') <=> inAccent
                      /\ nodes[n].isMesh =>
                           /\ color = ThreeColor(colorSet.main_color) <=> inMain
                           /\ color = ThreeColor(colorSet.accent_color) <=> inAccent]_vars

\* C5 witness: the document of model A was applied with no override: Plate
\* (by its parent Base) and Knob are red, Lid-2 (by its stripped name) is
\* green and Screw keeps the color it was loaded with.
C5_Witness ==
  \E s \in DOMAIN loads :
    /\ loads[s].path = "models/A.glb"
    /\ loads[s].fetch = "applied"
    /\ mainMeshes = << <<s, 3>>, <<s, 5>> >>
    /\ accentMeshes = << <<s, 4>> >>
    /\ MeshColor(loads, <<s, 3>>) = "ff0000"
    /\ MeshColor(loads, <<s, 5>>) = "ff0000"
    /\ MeshColor(loads, <<s, 4>>) = "00ff00"
    /\ MeshColor(loads, <<s, 6>>) = "cccccc"

\* the load made at startup has come to an end, whatever it is
InitialLoadSettled ==
  loads[1].gltf = "error" \/ loads[1].fetch \in {"applied", "skipped", "hidden"}

\* every mesh of the collection shows the color
AllShow(lds, meshes, color) == \A i \in DOMAIN meshes : MeshColor(lds, meshes[i]) = color

\* C6: the colors read from the location at startup override the document's
\* colors for the first load only: when the document of a model loaded by a
\* later loadModel call is applied, whatever the first load came to, the
\* pickers and the meshes of the groups show that model's main_color and
\* accent_color.
C6_LaterLoadsShowAuthoredColors ==
  [][\A s \in DOMAIN loads :
       (s > 1 /\ InitialLoadSettled /\ ColorSetSettled(s, "doc"))
         => /\ mainPickerValue' = ColorSetOf(s).main_color
            /\ accentPickerValue' = ColorSetOf(s).accent_color
            /\ AllShow(loads', mainMeshes', ThreeColor(ColorSetOf(s).main_color))
            /\ AllShow(loads', accentMeshes', ThreeColor(ColorSetOf(s).accent_color))]_vars

\* C7: a page opened at the location last written by updateURL in a quiescent
\* state shows, once its first load has settled, the model that was selected
\* and, when the controls were visible and the document is applied again, the
\* picker values and the colors of the main and accent meshes that were shown.
C7_LocationRoundTrip ==
  (snapshot.taken /\ Quiescent)
    => /\ selectValue = snapshot.select
       /\ (snapshot.display # "none" /\ loads[1].fetch = "applied")
            => /\ controlsDisplay # "none"
               /\ mainPickerValue = snapshot.mainPicker
               /\ accentPickerValue = snapshot.accentPicker
               /\ Shown(loads, mainMeshes) = snapshot.main
               /\ Shown(loads, accentMeshes) = snapshot.accent

\* C8: in every state with no load and no fetch in flight, the location's
\* model field is the selected model's file name without .glb, and its main
\* and accent fields are present exactly when the color controls are visible,
\* and are then the picker values without the leading #.
C8_LocationReflectsPage ==
  Quiescent
    => /\ ParamGet(search, "model") = modelStem(selectValue)
       /\ (ParamGet(search, "main") # Null) <=> (controlsDisplay # "none")
       /\ (ParamGet(search, "accent") # Null) <=> (controlsDisplay # "none")
       /\ controlsDisplay # "none"
            => /\ ParamGet(search, "main") = Tail(mainPickerValue)
               /\ ParamGet(search, "accent") = Tail(accentPickerValue)

\* C9: when the geometry load of a loadModel call fails, in any interleaving
\* with other loads, the loading overlay is present and shows 'Failed to load
\* model.' once the error callback has run, and no load is started.
C9_FailureMessageShown ==
  [][\A s \in DOMAIN loads :
       GltfError(s) => /\ loadingOverlay'
                       /\ loadingText' = TextFailed
                       /\ NoLoadStarted]_vars

\* the two instances of the part Bracket in a model
BracketMesh == "Assembly/Bracket.step (mesh)"
BracketSibling == "Assembly/Bracket-2.step (mesh)"

\* the color the main group has when a document has been applied
MainColorApplied(colorSet) ==
  ThreeColor(IF urlMainColor # Null THEN urlMainColor ELSE colorSet.main_color)

\* C15: the part entry "Bracket" matches the mesh "Assembly/Bracket.step (mesh)"
\* by its cleaned name and the sibling "Assembly/Bracket-2.step (mesh)" by its
\* instance-stripped cleaned name: when the document naming "Bracket" in
\* main_parts is applied, both meshes are in the main group with its color.
C15_BracketInstancesMatch ==
  [][\A s \in DOMAIN loads :
       (ColorSetSettled(s, "doc") /\ "Bracket" \in Range(ColorSetOf(s).main_parts))
         => LET nodes == GltfNodes(loads[s].path)
            IN  /\ cleanNodeName(BracketMesh) = "Bracket"
                /\ cleanNodeName(BracketSibling) = "Bracket-2"
                /\ stripNumericSuffix(cleanNodeName(BracketSibling)) = "Bracket"
                /\ \A n \in DOMAIN nodes :
                     (nodes[n].isMesh /\ nodes[n].name \in {BracketMesh, BracketSibling})
                       => /\ <<s, n>> \in Range(mainMeshes')
                          /\ MeshColor(loads', <<s, n>>) = MainColorApplied(ColorSetOf(s))]_vars

\* C15 witness: the document of model B was applied at the location without
\* colors, and both Bracket meshes (nodes 5 and 6) show its main color
C15_Witness ==
  \E s \in DOMAIN loads :
    /\ loads[s].path = "models/B.glb"
    /\ loads[s].fetch = "applied"
    /\ GltfNodes(loads[s].path)[5].name = BracketMesh
    /\ GltfNodes(loads[s].path)[6].name = BracketSibling
    /\ {<<s, 5>>, <<s, 6>>} \subseteq Range(mainMeshes)
    /\ MeshColor(loads, <<s, 5>>) = "aa0000"
    /\ MeshColor(loads, <<s, 6>>) = "aa0000"

\* a geometry load is in flight
LoadInFlight == \E s \in DOMAIN loads : loads[s].gltf = "pending"

\* every geometry load started has succeeded
AllLoaded == \A s \in DOMAIN loads : loads[s].gltf = "loaded"

\* C16: whatever the order in which the geometry loads complete, the scene
\* never holds more than one loaded model, and once every load has succeeded
\* the model in the scene and in currentModel is the one of the most recent
\* loadModel call.
C16_LastLoadWins ==
  /\ Cardinality(sceneModels) <= 1
  /\ AllLoaded => currentModel = Len(loads) /\ sceneModels = {Len(loads)}

\* C17: the loading overlay exists in every state in which a geometry load is
\* in flight and is absent once every started load has succeeded; no callback
\* of a geometry load (success, progress, error) runs in a state where the
\* overlay element it accesses is missing.
C17_OverlayWhileLoading ==
  [][/\ LoadInFlight' => loadingOverlay'
     /\ AllLoaded' => ~loadingOverlay'
     /\ \A s \in DOMAIN loads :
          (\/ GltfLoaded(s)
           \/ GltfError(s)
           \/ \E progress \in ProgressEvents :
                progress.total # 0 /\ GltfProgress(s, progress))
            => loadingOverlay]_vars

\* the nodes of the model that have an item in the tree
NodesShown(items) == { items[i].node : i \in DOMAIN items }

\* the tree holds one item per node of the model of load s, all nodes below
\* a single-child root named "Scene", in traversal order
ShowsHierarchyOf(s) ==
  LET nodes == GltfNodes(loads[s].path)
      items == TreeShown(loads, treeModel)
      first == IF Len(ChildrenOf(nodes, 1)) = 1 /\ nodes[1].name = "Scene" THEN 2 ELSE 1
  IN  /\ treeModel # 0 /\ loads[treeModel].path = loads[s].path
      /\ Len(items) = Len(nodes) - first + 1
      /\ \A i \in DOMAIN items : items[i].node = first + i - 1
                                  /\ items[i].label = nodes[first + i - 1].name

\* C18: in every state in which no geometry load is in flight, the tree shows
\* exactly the node hierarchy of the model in the scene, and no hierarchy
\* when the scene holds no model.
C18_TreeShowsSceneModel ==
  ~LoadInFlight
    => /\ sceneModels = {} => TreeShown(loads, treeModel) = <<>>
       /\ \A s \in sceneModels : ShowsHierarchyOf(s)

\* the meshes of the models loaded so far, as <<load, node>>
MeshesOf(lds) ==
  UNION { { <<s, n>> : n \in { k \in DOMAIN GltfNodes(lds[s].path) :
                                 GltfNodes(lds[s].path)[k].isMesh } } :
          s \in { t \in DOMAIN lds : lds[t].gltf = "loaded" } }

\* the color the mesh had when its model was loaded
LoadedColor(lds, m) ==
  GltfMaterials(lds[m[1]].path)[GltfNodes(lds[m[1]].path)[m[2]].material]

\* the step leaves the color of every mesh outside the group as it was
OthersKeepColor(group) ==
  \A m \in MeshesOf(loads) \ Range(group) : MeshColor(loads', m) = MeshColor(loads, m)

\* no other mesh of the model has the material object of mesh m
OwnMaterial(lds, m) ==
  \A k \in MeshesOf(lds) :
    (k[1] = m[1] /\ k[2] # m[2]) => lds[k[1]].material[k[2]] # lds[m[1]].material[m[2]]

\* the mesh was put in a group by the document applied to its model
Grouped(lds, m) ==
  /\ lds[m[1]].fetch = "applied"
  /\ LET colorSet == ColorSetAt(ColorPath(lds[m[1]].path))
         nodes    == GltfNodes(lds[m[1]].path)
     IN  Matches(colorSet.main_parts, nodes, m[2])
           \/ Matches(colorSet.accent_parts, nodes, m[2])

\* C21: applying a color-group document or changing a picker never changes
\* the material color of a mesh outside the recolored group, also when the
\* mesh shared its material with a grouped mesh at load time: each grouped
\* mesh has a material of its own once the document is applied, and a mesh in
\* no group keeps the color it was loaded with.
C21_RecolorLeavesOthers ==
  [][/\ \A value \in PickColors :
          /\ MainPickerInput(value) => OthersKeepColor(mainMeshes)
          /\ AccentPickerInput(value) => OthersKeepColor(accentMeshes)
     /\ \A s \in DOMAIN loads :
          ColorSetSettled(s, "doc")
            => /\ OthersKeepColor(mainMeshes' \o accentMeshes')
               /\ \A m \in Range(mainMeshes') \cup Range(accentMeshes') :
                    OwnMaterial(loads', m)
     /\ \A m \in MeshesOf(loads') :
          ~Grouped(loads', m) => MeshColor(loads', m) = LoadedColor(loads', m)]_vars

\* C21 witness: in model A, Plate, Lid-2 and Screw were loaded with one
\* material; the document was applied and the main picker set to blue: Plate
\* is blue, Lid-2 has the accent color and Screw the color it was loaded with
C21_Witness ==
  \E s \in DOMAIN loads :
    /\ loads[s].path = "models/A.glb"
    /\ loads[s].fetch = "applied"
    /\ GltfNodes(loads[s].path)[3].material = GltfNodes(loads[s].path)[6].material
    /\ <<s, 3>> \in Range(mainMeshes)
    /\ mainPickerValue = "#0000ff"
    /\ MeshColor(loads, <<s, 3>>) = "0000ff"
    /\ MeshColor(loads, <<s, 4>>) = "00ff00"
    /\ MeshColor(loads, <<s, 6>>) = "cccccc"

\* the visible flag of every node of every model
VisibleFlags == [s \in DOMAIN loads |-> loads[s].visible]
VisibleFlagsNext == [s \in DOMAIN loads' |-> loads'[s].visible]

\* every checkbox of the tree is checked exactly when its node is visible
ChecksShowVisible(lds, tree, checks) ==
  LET items == TreeShown(lds, tree)
  IN  /\ Len(checks) = Len(items)
      /\ \A i \in DOMAIN items : checks[i].checked = lds[tree].visible[items[i].node]

\* the step sets the visible flag of the node of the item to the new state of
\* its checkbox and changes no other visible flag
SetsOneFlag(item) ==
  LET obj == TreeShown(loads, treeModel)[item].node
  IN  /\ treeChecks'[item].checked = ~treeChecks[item].checked
      /\ loads'[treeModel].visible[obj] = treeChecks'[item].checked
      /\ \A s \in DOMAIN loads : \A n \in DOMAIN loads[s].visible :
           (s # treeModel \/ n # obj) => loads'[s].visible[n] = loads[s].visible[n]

\* C22: in every reachable state each checkbox of the tree is checked exactly
\* when its node's visible flag is set; a checkbox change sets the visible
\* flag of that one node and leaves the visible flags of all other nodes,
\* every material color and mainMeshes/accentMeshes unchanged; a picker change
\* leaves every visible flag unchanged.
C22_CheckboxesAndPickersApart ==
  [][/\ ChecksShowVisible(loads', treeModel', treeChecks')
     /\ \A item \in ToggledItems :
          CheckboxChange(item)
            => /\ SetsOneFlag(item)
               /\ MeshStateNext = MeshState
               /\ mainMeshes' = mainMeshes /\ accentMeshes' = accentMeshes
     /\ \A value \in PickColors :
          (MainPickerInput(value) \/ AccentPickerInput(value))
            => VisibleFlagsNext = VisibleFlags]_vars

\* C22 witness: the tree shows the displayed model with its document applied;
\* the checkbox of item 3, a grouped mesh, was unchecked and the main picker
\* set to blue: the node is hidden, its sibling is visible, its color is the
\* picked one
C22_Witness ==
  /\ treeModel # 0 /\ treeModel = currentModel
  /\ loads[treeModel].path = "models/A.glb"
  /\ loads[treeModel].fetch = "applied"
  /\ ~treeChecks[3].checked /\ treeChecks[3].hidden
  /\ ~loads[treeModel].visible[3]
  /\ loads[treeModel].visible[4]
  /\ mainPickerValue = "#0000ff"
  /\ MeshColor(loads, <<treeModel, 3>>) = "0000ff"

(***************************************************************************)
(* Properties of convert.sh.                                               *)
(***************************************************************************)
\* the run is one of the STEP pipeline and has come to its first stage
ExtractionRan == stages # <<>> /\ stages[1].tool = "extract_step_colors.py"

\* the arguments hold --colors followed by the path of the ColorMap
HasColors(args) ==
  \E k \in 1..(Len(args) - 1) : args[k] = "--colors" /\ args[k + 1] = TMPJSON

\* C10: when the extraction stage exits nonzero, the script prints a warning,
\* still runs the FreeCAD stage and then the Blender stage without --colors,
\* and exits 0 when those two stages succeed; the Blender stage is given
\* --colors with the path of the ColorMap exactly when extraction exited 0.
C10_ExtractionFailureIsNotFatal ==
  /\ (pc = "exited" /\ ExtractionRan /\ stages[1].status # 0)
       => /\ ExtractionWarning \in Range(stdout)
          /\ Len(stages) >= 2 /\ stages[2].tool = "freecadcmd"
          /\ stages[2].status = 0
               => /\ Len(stages) = 3
                  /\ stages[3].tool = "Blender"
                  /\ "--colors" \notin Range(stages[3].args)
                  /\ stages[3].status = 0 => exitStatus = 0
  /\ \A i \in DOMAIN stages :
       (ExtractionRan /\ stages[i].tool = "Blender")
         => (HasColors(stages[i].args) <=> stages[1].status = 0)

\* the input file named on the command line, "" when there is none
InputOf(args) == IF Len(Positional(args)) >= 2 THEN Positional(args)[1] ELSE ""

\* the inputs in the formats the script converts, and those in no such format
StepInputs == {"part.step", "ASM.STP"}
UsdInputs == {"scene.usdz", "Scene.USDZ", "a.usdc", "b.usd"}
UnsupportedInputs == {"mesh.obj", "noext"}

\* the tools run so far, in order
ToolsRun == [i \in DOMAIN stages |-> stages[i].tool]

StepTools == <<"extract_step_colors.py", "freecadcmd", "Blender">>

\* C11: for an input whose extension is not a supported one, the script exits
\* nonzero after printing the list of supported extensions; no temporary file
\* is ever created and no stage is ever started.
C11_UnsupportedRejectedFirst ==
  InputOf(argv) \in UnsupportedInputs
    => /\ tmpFiles = {}
       /\ stages = <<>>
       /\ pc = "exited" => exitStatus # 0 /\ stdout # <<>>
                             /\ stdout[Len(stdout)] = SupportedLine

C11_Witness ==
  InputOf(argv) \in UnsupportedInputs /\ pc = "exited"

\* C12: an input with extension usdz, usdc or usd, in any letter case, is
\* converted by a single Blender stage, with no extraction stage and no
\* FreeCAD stage; an input with extension step or stp runs all three stages
\* (the third only after the FreeCAD stage exited 0).
C12_StagesByExtension ==
  /\ InputOf(argv) \in UsdInputs
       => /\ \A i \in DOMAIN stages : stages[i].tool = "Blender"
          /\ (pc = "exited" /\ env.blender)
               => /\ Len(stages) = 1
                  /\ stages[1].args = BlenderArgs(sh.NO_DRACO, <<>>, InputOf(argv), sh.OUTPUT)
  /\ (InputOf(argv) \in StepInputs /\ pc = "exited" /\ env.freecad /\ env.blender
        /\ Len(stages) >= 2 /\ stages[2].status = 0)
       => ToolsRun = StepTools

\* C19: the STEP pipeline runs extraction, FreeCAD, Blender in this order; the
\* Blender stage is never started unless the FreeCAD stage exited 0; a nonzero
\* exit of the FreeCAD or the Blender stage, or a missing executable, makes
\* the script exit nonzero.
C19_StagesInOrder ==
  InputOf(argv) \in StepInputs
    => /\ Len(stages) <= 3 /\ ToolsRun = SubSeq(StepTools, 1, Len(stages))
       /\ Len(stages) = 3 => stages[2].status = 0
       /\ pc = "exited"
            => /\ (\E i \in DOMAIN stages : i >= 2 /\ stages[i].status # 0) => exitStatus # 0
               /\ (~env.freecad \/ ~env.blender) => exitStatus # 0 /\ stages = <<>>

C19_Witness ==
  /\ InputOf(argv) \in StepInputs /\ pc = "exited"
  /\ Len(stages) = 2 /\ stages[2].status # 0 /\ exitStatus # 0

\* the stage is handed the path of the ColorMap to write it
WritesColorMap(stage) ==
  stage.tool # "Blender" /\ TMPJSON \in Range(stage.args)

\* C20: on every exit path of the STEP pipeline taken after the two temporary
\* files were created, both are removed when the process has exited; the
\* ColorMap file is handed for writing to no stage but the extraction stage
\* (the Blender stage gets it after --colors, to read it).
C20_TemporaryFilesRemoved ==
  /\ pc = "exited" => tmpFiles \cap {TMPGLB, TMPJSON} = {}
  /\ \A i \in DOMAIN stages :
       /\ WritesColorMap(stages[i]) => stages[i].tool = "extract_step_colors.py"
       /\ (stages[i].tool = "Blender" /\ TMPJSON \in Range(stages[i].args))
            => HasColors(stages[i].args)

C20_Witness ==
  /\ pc = "exited" /\ sh.trap /\ Len(stages) = 3
  /\ tmpFiles = {}

(***************************************************************************)
(* Properties of the name functions.                                       *)
(***************************************************************************)
\* C13: cleanNodeName is idempotent: applied to its own result it returns
\* that result, also for names with more than one ".step", "(mesh)" or
\* "(group)".
C13_CleanNodeNameIdempotent ==
  \A i \in 2..Len(normalized) : normalized[i] = normalized[i - 1]

\* C14: cleanNodeName of "Assembly/Bracket-(mesh)-3" is "Bracket-3", and
\* stripNumericSuffix of that result is "Bracket".
C14_BracketExample ==
  nodeName = "Assembly/Bracket-(mesh)-3"
    => /\ normalized # <<>> => normalized[1] = "Bracket-3"
       /\ instance # Null => instance = "Bracket"

=============================================================================
